---- MODULE Spec2Model ----
(***************************************************************************)
(* The masonry gallery of docs/masonry-gallery.js: the MasonryGallery      *)
(* object (image preload, column planning, grid packing, rendering, focus  *)
(* toggling, resize handling) and the GalleryManager that creates it.      *)
(*                                                                         *)
(* Lengths are whole pixels.  Container widths are drawn from multiples of *)
(* 60, so that width / columns is exact for every column count 1..5, and   *)
(* height hints are even, so that height / 2 is exact.                     *)
(***************************************************************************)
EXTENDS Integers, Sequences, FiniteSets, TLC

(***************************************************************************)
(* JavaScript values that are not ordinary numbers.  Each is an integer    *)
(* outside the range of every pixel length and item id of the model.       *)
(***************************************************************************)
\* NaN: undefined / 2 and every sum or maximum that involves it
NaN == -999999
\* undefined: a missing property (a missing hint, colHeights[-1])
Undefined == -999998
\* null: this.focusedItemId / this.focusedCard when nothing is focused
Null == -999997
\* -Infinity: Math.max() of no arguments
NegInfinity == -999996

IsNum(v) == v # NaN /\ v # Undefined /\ v # Null /\ v # NegInfinity

\* a value in a boolean position (if, ||, ?:, !)
Truthy(v) == IsNum(v) /\ v # 0

\* a || b
Or(a, b) == IF Truthy(a) THEN a ELSE b

\* a + b on numbers; undefined + n and NaN + n are NaN
JsAdd(a, b) == IF IsNum(a) /\ IsNum(b) THEN a + b ELSE NaN

\* a >= b; false as soon as one side is NaN or undefined
JsGE(a, b) == IsNum(a) /\ IsNum(b) /\ a >= b

\* Math.max(a, b)
MathMax2(a, b) ==
    IF a = NegInfinity THEN b
    ELSE IF b = NegInfinity THEN a
    ELSE IF ~IsNum(a) \/ ~IsNum(b) THEN NaN
    ELSE IF a >= b THEN a ELSE b

RECURSIVE MathMax(_)
\* Math.max(...s): -Infinity for no arguments, NaN as soon as one is NaN
MathMax(s) ==
    IF s = <<>> THEN NegInfinity ELSE MathMax2(Head(s), MathMax(Tail(s)))

\* Math.min(...s) for a non-empty s
MathMin(s) ==
    IF \E k \in 1..Len(s) : ~IsNum(s[k]) THEN NaN
    ELSE CHOOSE m \in {s[k] : k \in 1..Len(s)} : \A k \in 1..Len(s) : m <= s[k]

\* s.indexOf(v), zero-based: the first index holding v, -1 when none does
\* (indexOf compares with ===, so NaN is never found)
IndexOf(s, v) ==
    IF v # NaN /\ \E k \in 1..Len(s) : s[k] = v
    THEN (CHOOSE k \in 1..Len(s) : s[k] = v /\ \A j \in 1..(k - 1) : s[j] # v) - 1
    ELSE -1

\* Math.round(num / den) for num >= 0, den > 0 (halves round up)
RoundDiv(num, den) == (2 * num + den) \div (2 * den)

\* Math.floor(v * 0.9)
FloorNineTenths(v) == (v * 9) \div 10

(***************************************************************************)
(* Bounds of the model.                                                    *)
(***************************************************************************)
\* longest item list handed to init in the packing specification
MaxItems == 3
\* longest item list handed to init in the lifecycle specification
MaxGalleryItems == 2
\* widest viewport of the column planner specification
MaxInnerWidth == 1600
\* most debounce timers pending at once
MaxTimers == 2

(***************************************************************************)
(* Gallery items (GalleryManager.init's literal list has this shape): id,  *)
(* img, height hint, optional width hint, optional destination url.        *)
(***************************************************************************)
Urls == {"a", "b", "c"}

ItemPool ==
    { [id |-> 0, img |-> "a", height |-> 800,       width |-> Undefined, url |-> FALSE],
      [id |-> 1, img |-> "b", height |-> Undefined, width |-> Undefined, url |-> TRUE],
      [id |-> 2, img |-> "a", height |-> 400,       width |-> Undefined, url |-> FALSE],
      [id |-> 3, img |-> "c", height |-> 1200,      width |-> 400,       url |-> TRUE] }

\* the item lists of at most n items with pairwise distinct ids
ItemLists(n) ==
    UNION { { s \in [1..k -> ItemPool] :
                \A a, b \in 1..k : a # b => s[a].id # s[b].id } : k \in 0..n }

\* the picture behind each URL: what a load that succeeds reports
NaturalSize(src) ==
    CASE src = "a" -> [naturalWidth |-> 400,  naturalHeight |-> 1200]
      [] src = "b" -> [naturalWidth |-> 1000, naturalHeight |-> 500]
      [] OTHER     -> [naturalWidth |-> 600,  naturalHeight |-> 600]

\* imageMeta[src] when src is absent: every property of it is undefined
NoMeta == [naturalWidth |-> Undefined, naturalHeight |-> Undefined]

\* the urls whose loads succeed in the lifecycle specification ("b" is a
\* broken link there, like the '#' of GalleryManager's last item)
Responds(src) == src # "b"

\* container widths and viewport sizes of the packing specification
ContainerWidths == {0, 600, 1200}
InnerWidths == {300, 500, 800, 1200, 1600}
InnerHeights == {400, 1000}

\* the items, container widths and viewport sizes of the lifecycle
\* specification
\* (GalleryManager hands the constructor a fixed catalogue; the lists here
\* are the selections of at most MaxGalleryItems of its items, in its order)
GalleryCatalogue ==
    << CHOOSE i \in ItemPool : i.id = 2,
       CHOOSE i \in ItemPool : i.id = 0,
       CHOOSE i \in ItemPool : i.id = 1 >>
GalleryLists ==
    {s \in ItemLists(MaxGalleryItems) :
        \E at \in [1..Len(s) -> 1..Len(GalleryCatalogue)] :
           /\ \A a, b \in 1..Len(s) : a < b => at[a] < at[b]
           /\ \A k \in 1..Len(s) : s[k] = GalleryCatalogue[at[k]]}
GalleryContainerWidths == {0, 600}
GalleryInnerWidths == {500, 1200}
GalleryInnerHeights == {400}

(***************************************************************************)
(* init, lines 40-47: natural dimensions merged onto an item.              *)
(***************************************************************************)
\* init's merge with the hints taken before the preload metadata
EnrichHintsFirst(i, imageMeta) ==
    LET meta == imageMeta[i.img]
        naturalWidth == Or(Or(i.width, meta.naturalWidth), 1000)
        naturalHeight == Or(Or(i.height, meta.naturalHeight), 1000)
    IN  [id |-> i.id, img |-> i.img, height |-> i.height, width |-> i.width,
         url |-> i.url,
         naturalWidth |-> naturalWidth, naturalHeight |-> naturalHeight,
         ratio |-> [num |-> naturalHeight, den |-> naturalWidth]]

Enrich(i, imageMeta) ==
    LET meta == imageMeta[i.img]
        naturalWidth == Or(Or(meta.naturalWidth, i.width), 1000)
        naturalHeight == Or(Or(meta.naturalHeight, i.height), 1000)
    IN  [id |-> i.id, img |-> i.img, height |-> i.height, width |-> i.width,
         url |-> i.url,
         naturalWidth |-> naturalWidth, naturalHeight |-> naturalHeight,
         ratio |-> [num |-> naturalHeight, den |-> naturalWidth]]

EnrichAll(items, imageMeta) ==
    [k \in 1..Len(items) |-> Enrich(items[k], imageMeta)]

(***************************************************************************)
(* updateColumns: the column count of a viewport width.                    *)
(***************************************************************************)
\* updateColumns with each breakpoint compared by > instead of >=
ColumnsForStrict(width) ==
    IF width > 1500 THEN 5
    ELSE IF width > 1000 THEN 4
    ELSE IF width > 600 THEN 3
    ELSE IF width > 400 THEN 2
    ELSE 1

ColumnsFor(width) ==
    IF width >= 1500 THEN 5
    ELSE IF width >= 1000 THEN 4
    ELSE IF width >= 600 THEN 3
    ELSE IF width >= 400 THEN 2
    ELSE 1

(***************************************************************************)
(* calculateGrid, lines 106-136: the packing pass.  A pass carries the     *)
(* local colHeights (cols, and minusOne for the property colHeights[-1]    *)
(* that a column index of -1 reads and writes) and the entries so far.     *)
(***************************************************************************)
Entry(child, x, y, w, h, focused) ==
    [id |-> child.id, img |-> child.img, height |-> child.height,
     width |-> child.width, url |-> child.url,
     naturalWidth |-> child.naturalWidth, naturalHeight |-> child.naturalHeight,
     ratio |-> child.ratio,
     x |-> x, y |-> y, w |-> w, h |-> h, focused |-> focused]

\* items.findIndex(i => i.id === id), one-based here, 0 for "not found"
FindIndex(items, id) ==
    IF \E k \in 1..Len(items) : items[k].id = id
    THEN CHOOSE k \in 1..Len(items) :
            items[k].id = id /\ \A j \in 1..(k - 1) : items[j].id # id
    ELSE 0

\* items without the one at index k
Without(items, k) ==
    [j \in 1..(Len(items) - 1) |-> IF j < k THEN items[j] ELSE items[j + 1]]

\* lines 110-115: the focused item first; "this.focusedItemId ?" is a
\* truthiness test, which the id 0 fails like null does
Ordered(items, focusedItemId) ==
    LET focusedIndex == IF Truthy(focusedItemId)
                        THEN FindIndex(items, focusedItemId) ELSE 0
    IN  IF focusedIndex >= 1
        THEN <<items[focusedIndex]>> \o Without(items, focusedIndex)
        ELSE items

\* line 122: the height of the focused entry
FocusedHeight(child, innerHeight) ==
    MathMax2(IF IsNum(child.height) THEN child.height \div 2 ELSE NaN,
             FloorNineTenths(innerHeight))

\* line 131: the ratio that sizes an unfocused entry
RatioOf(child) ==
    IF child.ratio.num # 0 THEN child.ratio
    ELSE IF Truthy(child.height) /\ Truthy(child.width)
         THEN [num |-> child.height, den |-> child.width]
         ELSE [num |-> 1, den |-> 1]

\* line 132: Math.max(80, Math.round(columnWidth * ratio))
PackedHeight(child, width, columns) ==
    LET ratio == RatioOf(child)
    IN  MathMax2(80, RoundDiv(width * ratio.num, columns * ratio.den))

\* lines 119-127: the focused child
PlaceFocused(child, pass, width, innerHeight) ==
    LET y == MathMin(pass.cols)
        h == FocusedHeight(child, innerHeight)
    IN  [cols |-> [i \in 1..Len(pass.cols) |-> JsAdd(y, h)],
         minusOne |-> pass.minusOne,
         grid |-> Append(pass.grid, Entry(child, 0, y, width, h, TRUE))]

\* an unfocused child always put in column 0
PlaceUnfocusedFirstColumn(child, pass, width, columns) ==
    LET columnWidth == width \div columns
        height == PackedHeight(child, width, columns)
        y == pass.cols[1]
    IN  [cols |-> [pass.cols EXCEPT ![1] = JsAdd(y, height)],
         minusOne |-> pass.minusOne,
         grid |-> Append(pass.grid, Entry(child, 0, y, columnWidth, height, FALSE))]

\* lines 128-135: an unfocused child
PlaceUnfocused(child, pass, width, columns) ==
    LET columnWidth == width \div columns
        col == IndexOf(pass.cols, MathMin(pass.cols))
        x == columnWidth * col
        height == PackedHeight(child, width, columns)
        y == IF col >= 0 THEN pass.cols[col + 1] ELSE pass.minusOne
        entry == Entry(child, x, y, columnWidth, height, FALSE)
    IN  IF col >= 0
        THEN [cols |-> [pass.cols EXCEPT ![col + 1] = JsAdd(y, height)],
              minusOne |-> pass.minusOne,
              grid |-> Append(pass.grid, entry)]
        ELSE [cols |-> pass.cols,
              minusOne |-> JsAdd(y, height),
              grid |-> Append(pass.grid, entry)]

\* lines 117-136: one child of ordered.map
Place(child, pass, width, columns, focusedItemId, innerHeight) ==
    IF focusedItemId = child.id
    THEN PlaceFocused(child, pass, width, innerHeight)
    ELSE PlaceUnfocused(child, pass, width, columns)

RECURSIVE PlaceAll(_, _, _, _, _, _)
PlaceAll(ordered, pass, width, columns, focusedItemId, innerHeight) ==
    IF ordered = <<>> THEN pass
    ELSE PlaceAll(Tail(ordered),
                  Place(Head(ordered), pass, width, columns, focusedItemId, innerHeight),
                  width, columns, focusedItemId, innerHeight)

\* lines 106-136 for a positive width
Pack(items, columns, width, focusedItemId, innerHeight) ==
    PlaceAll(Ordered(items, focusedItemId),
             [cols |-> [i \in 1..columns |-> 0], minusOne |-> Undefined, grid |-> <<>>],
             width, columns, focusedItemId, innerHeight)

(***************************************************************************)
(* State.                                                                  *)
(*   gallery     the MasonryGallery object's fields (resizeTimeout as      *)
(*               "the timer it names is pending", resizeObserver as "is    *)
(*               connected", focusedCard as the key of the element it      *)
(*               refers to)                                                *)
(*   container   the container element: whether the document has it       *)
(*               (querySelector finds it), offsetWidth, its child elements *)
(*               and its style.height                                      *)
(*   colHeights  the local colHeights at the end of the last packing pass  *)
(*   stagger     the pending timers of animateIn, in firing order          *)
(*   win         the window: innerWidth, innerHeight, whether init's       *)
(*               resize listener is attached, and the number of pending    *)
(*               debounce timers                                           *)
(*   preload     preloadImages: one Image and one promise per url, and the *)
(*               local meta                                                *)
(*   manager     GalleryManager.gallery (as "is set") and .initialized,    *)
(*               whether initClickOutside's listener is attached, and      *)
(*               (history) whether destroy has run on a mounted gallery    *)
(*   pc          where the gallery's lifecycle stands                      *)
(***************************************************************************)
VARIABLES gallery, container, colHeights, stagger, win, preload, manager, pc

vars == <<gallery, container, colHeights, stagger, win, preload, manager, pc>>

\* what the handlers read and write
Machine ==
    [gallery |-> gallery, container |-> container,
     colHeights |-> colHeights, stagger |-> stagger]

Becomes(m) ==
    \E after \in {m} :
       /\ gallery' = after.gallery
       /\ container' = after.container
       /\ colHeights' = after.colHeights
       /\ stagger' = after.stagger

\* constructor, lines 6-31 (focusedCard is not set there: undefined, falsy)
NewGallery ==
    [items |-> <<>>, grid |-> <<>>, columns |-> 1, width |-> 0,
     imagesReady |-> FALSE, hasMounted |-> FALSE, resizeTimeout |-> FALSE,
     focusedItemId |-> Null, imageMeta |-> [u \in Urls |-> NoMeta],
     focusedCard |-> Null, resizeObserver |-> FALSE]

NoColHeights == [cols |-> <<>>, minusOne |-> Undefined]

(***************************************************************************)
(* Styles.  Assigning a value that is not a valid CSS length ("NaNpx",     *)
(* "undefinedpx", "-Infinitypx") leaves the property as it was.            *)
(***************************************************************************)
StylePx(old, v) == IF IsNum(v) THEN v ELSE old

\* element.style.transform = `translate(${x}px, ${y}px)`: a transform
\* without a scale() leaves the element at its own size
Translate(el, x, y) ==
    IF IsNum(x) /\ IsNum(y) THEN [el EXCEPT !.x = x, !.y = y, !.scale = 100] ELSE el

\* element.style.transform = `translate(${x}px, ${y}px) scale(${s})`, the
\* scale in hundredths
TranslateScale(el, x, y, s) ==
    IF IsNum(x) /\ IsNum(y) THEN [el EXCEPT !.x = x, !.y = y, !.scale = s] ELSE el

\* the hover options GalleryManager.init hands the constructor (lines
\* 537-540), hoverScale in hundredths
scaleOnHover == TRUE
hoverScale == 98
colorShiftOnHover == FALSE

\* the first child with data-key = key (querySelector), 0 when there is none
QuerySelector(children, key) ==
    IF \E k \in 1..Len(children) : children[k].key = key
    THEN CHOOSE k \in 1..Len(children) :
            children[k].key = key /\ \A j \in 1..(k - 1) : children[j].key # key
    ELSE 0

(***************************************************************************)
(* calculateGrid, lines 102-137.                                           *)
(***************************************************************************)
\* calculateGrid that starts its pass from the column heights the previous
\* pass left, where line 106 creates them anew
calculateGridOnOldHeights(m, w) ==
    LET width == m.container.offsetWidth
        g == [m.gallery EXCEPT !.width = width]
        start == IF Len(m.colHeights.cols) = g.columns
                 THEN m.colHeights.cols ELSE [i \in 1..g.columns |-> 0]
    IN  IF ~Truthy(width) THEN [m EXCEPT !.gallery = g]
        ELSE LET pass == PlaceAll(Ordered(g.items, g.focusedItemId),
                                  [cols |-> start, minusOne |-> Undefined, grid |-> <<>>],
                                  width, g.columns, g.focusedItemId, w.innerHeight)
             IN  [m EXCEPT !.gallery = [g EXCEPT !.grid = pass.grid],
                           !.colHeights = [cols |-> pass.cols,
                                           minusOne |-> pass.minusOne]]

\* calculateGrid without the early return of line 104
calculateGridAtAnyWidth(m, w) ==
    LET width == m.container.offsetWidth
        g == [m.gallery EXCEPT !.width = width]
        pass == Pack(g.items, g.columns, width, g.focusedItemId, w.innerHeight)
    IN  [m EXCEPT !.gallery = [g EXCEPT !.grid = pass.grid],
                  !.colHeights = [cols |-> pass.cols, minusOne |-> pass.minusOne]]

calculateGrid(m, w) ==
    LET width == m.container.offsetWidth
        g == [m.gallery EXCEPT !.width = width]
    IN  IF ~Truthy(width) THEN [m EXCEPT !.gallery = g]
        ELSE LET pass == Pack(g.items, g.columns, width, g.focusedItemId, w.innerHeight)
             IN  [m EXCEPT !.gallery = [g EXCEPT !.grid = pass.grid],
                           !.colHeights = [cols |-> pass.cols,
                                           minusOne |-> pass.minusOne]]

\* lines 255-256 and 308-309: Math.max(...grid.map(item => item.y + item.h))
MaxHeight(grid) ==
    MathMax([k \in 1..Len(grid) |-> JsAdd(grid[k].y, grid[k].h)])

SetContainerHeight(m) ==
    [m EXCEPT !.container.height = StylePx(@, MaxHeight(m.gallery.grid))]

(***************************************************************************)
(* render, lines 167-257: the children are rebuilt from the Grid (the      *)
(* elements of the previous render leave the document, and with them the   *)
(* targets of the pending stagger timers).                                 *)
(***************************************************************************)
NewElement(item) ==
    [key |-> item.id, cardFocused |-> FALSE, ariaPressed |-> FALSE,
     x |-> Undefined, y |-> Undefined, w |-> Undefined, h |-> Undefined,
     opacity |-> 1, scale |-> 100,
     overlay |-> IF colorShiftOnHover THEN 0 ELSE Undefined]

\* container.innerHTML = '' (lines 168, 414): the elements the pending
\* stagger timers closed over leave the document, and what those timers
\* will write goes to elements nothing can reach any more
Detached(timers) ==
    [k \in 1..Len(timers) |->
        [element |-> 0, x |-> 0, y |-> 0, attached |-> FALSE]]

\* render without line 168: the new elements are appended to the children
\* of the previous render
renderAppends(m) ==
    LET grid == m.gallery.grid
        built == [m EXCEPT
                    !.container.children =
                        @ \o [k \in 1..Len(grid) |-> NewElement(grid[k])],
                    !.gallery.focusedCard = Null]
    IN  SetContainerHeight(built)

render(m) ==
    LET grid == m.gallery.grid
        built == [m EXCEPT
                    !.container.children = [k \in 1..Len(grid) |-> NewElement(grid[k])],
                    !.gallery.focusedCard = Null,
                    !.stagger = Detached(@)]
    IN  SetContainerHeight(built)

(***************************************************************************)
(* animateIn, lines 259-287, with animateFrom = 'bottom' as GalleryManager *)
(* configures it: each element starts below the viewport, transparent, and *)
(* a timer per entry moves it to the entry's position.                     *)
(***************************************************************************)
RECURSIVE AnimateFrom(_, _, _, _)
AnimateFrom(grid, k, m, w) ==
    IF k > Len(grid) THEN m
    ELSE LET item == grid[k]
             e == QuerySelector(m.container.children, item.id)
         IN  IF e = 0 THEN AnimateFrom(grid, k + 1, m, w)
             ELSE LET el == m.container.children[e]
                      placed == Translate([el EXCEPT !.opacity = 0],
                                          item.x, w.innerHeight + 200)
                      sized == [placed EXCEPT !.w = StylePx(@, item.w),
                                              !.h = StylePx(@, item.h)]
                  IN  AnimateFrom(grid, k + 1,
                         [m EXCEPT !.container.children[e] = sized,
                                   !.stagger = Append(@, [element |-> e, x |-> item.x,
                                                          y |-> item.y, attached |-> TRUE])],
                         w)

animateIn(m, w) ==
    [AnimateFrom(m.gallery.grid, 1, m, w) EXCEPT !.gallery.hasMounted = TRUE]

(***************************************************************************)
(* updateLayout, lines 289-310.                                            *)
(***************************************************************************)
RECURSIVE LayoutFrom(_, _, _)
LayoutFrom(grid, k, children) ==
    IF k > Len(grid) THEN children
    ELSE LET item == grid[k]
             e == QuerySelector(children, item.id)
         IN  IF e = 0 THEN LayoutFrom(grid, k + 1, children)
             ELSE LET moved == Translate(children[e], item.x, item.y)
                      sized == [moved EXCEPT !.w = StylePx(@, item.w),
                                             !.h = StylePx(@, item.h)]
                  IN  LayoutFrom(grid, k + 1, [children EXCEPT ![e] = sized])

\* updateLayout that rebuilds the elements from the Grid instead of
\* restyling the ones it finds
updateLayoutRebuilds(m) ==
    IF ~m.gallery.hasMounted THEN m
    ELSE SetContainerHeight(
            [m EXCEPT !.container.children =
                LayoutFrom(m.gallery.grid, 1,
                           [k \in 1..Len(m.gallery.grid) |-> NewElement(m.gallery.grid[k])])])

updateLayout(m) ==
    IF ~m.gallery.hasMounted THEN m
    ELSE SetContainerHeight(
            [m EXCEPT !.container.children = LayoutFrom(m.gallery.grid, 1, @)])

(***************************************************************************)
(* focusCard / unfocusCard / toggleFocus, lines 312-350.  element is the   *)
(* key of a child of the container; id is the id of the handler's item.    *)
(***************************************************************************)
MarkElement(m, element, on) ==
    LET e == QuerySelector(m.container.children, element)
    IN  IF e = 0 THEN m
        ELSE [m EXCEPT !.container.children[e].cardFocused = on,
                       !.container.children[e].ariaPressed = on]

(***************************************************************************)
(* handleMouseEnter / handleMouseLeave, lines 352-384.  element is the key *)
(* of the child the listener was added to and item the entry the listener  *)
(* closed over (lines 248-249); overlay is the opacity of the element's    *)
(* colour overlay in hundredths, Undefined when render created none.       *)
(***************************************************************************)
Hover(m, element, item, scale, opacity) ==
    LET e == QuerySelector(m.container.children, element)
        k == FindIndex(m.gallery.grid, item.id)
        latest == IF k > 0 THEN m.gallery.grid[k] ELSE item
    IN  IF e = 0 \/ m.gallery.focusedCard = element THEN m
        ELSE LET scaled ==
                   IF scaleOnHover /\ m.gallery.focusedItemId # item.id
                   THEN TranslateScale(m.container.children[e], latest.x, latest.y, scale)
                   ELSE m.container.children[e]
                 shifted ==
                   IF colorShiftOnHover /\ scaled.overlay # Undefined
                   THEN [scaled EXCEPT !.overlay = opacity]
                   ELSE scaled
             IN  [m EXCEPT !.container.children[e] = shifted]

handleMouseEnter(m, element, item) == Hover(m, element, item, hoverScale, 30)

handleMouseLeave(m, element, item) == Hover(m, element, item, 100, 0)

\* focusCard without its calculateGrid / updateLayout calls
focusCardNoRepack(m, element, id, w) ==
    [MarkElement(m, element, TRUE) EXCEPT !.gallery.focusedItemId = id]

focusCard(m, element, id, w) ==
    updateLayout(
        calculateGrid(
            [MarkElement(m, element, TRUE) EXCEPT !.gallery.focusedItemId = id], w))

\* unfocusCard that leaves focusedItemId as it was
unfocusCardKeepsId(m, element, w) ==
    updateLayout(calculateGrid(MarkElement(m, element, FALSE), w))

unfocusCard(m, element, w) ==
    updateLayout(
        calculateGrid(
            [MarkElement(m, element, FALSE) EXCEPT !.gallery.focusedItemId = Null], w))

\* toggleFocus without "remove focus from previously focused card"
toggleFocusKeepsPrevious(m, element, id, w) ==
    IF m.gallery.focusedCard = element
    THEN [unfocusCard(m, element, w) EXCEPT !.gallery.focusedCard = Null]
    ELSE [focusCard(m, element, id, w) EXCEPT !.gallery.focusedCard = element]

toggleFocus(m, element, id, w) ==
    LET wasFocused == m.gallery.focusedCard = element
        cleared == IF m.gallery.focusedCard # Null /\ m.gallery.focusedCard # element
                   THEN unfocusCard(m, m.gallery.focusedCard, w)
                   ELSE m
    IN  IF wasFocused
        THEN [unfocusCard(cleared, element, w) EXCEPT !.gallery.focusedCard = Null]
        ELSE [focusCard(cleared, element, id, w) EXCEPT !.gallery.focusedCard = element]

\* the handlers render attaches to an element, lines 232-246: what they
\* leave of the gallery (after) and the item whose url they hand to
\* window.open(url, '_blank', 'noopener') (opened, Null when they open none;
\* the new browsing context keeps no reference to this one)
HasUrl(m, id) == m.gallery.items[FindIndex(m.gallery.items, id)].url

click(m, element, id, w) ==
    IF m.gallery.focusedCard = element /\ HasUrl(m, id)
    THEN [after |-> m, opened |-> id]
    ELSE [after |-> toggleFocus(m, element, id, w), opened |-> Null]

keydown(m, element, id, w) ==
    [after |-> toggleFocus(m, element, id, w), opened |-> Null]

\* the outside-click listener clearing the focus without a repack
clickOutsideKeepsGrid(m, w) ==
    IF m.gallery.focusedCard # Null
    THEN [MarkElement(m, m.gallery.focusedCard, FALSE)
             EXCEPT !.gallery.focusedItemId = Null, !.gallery.focusedCard = Null]
    ELSE m

\* initClickOutside's listener, lines 401-406, for a target outside every item
clickOutside(m, w) ==
    IF m.gallery.focusedCard # Null
    THEN [unfocusCard(m, m.gallery.focusedCard, w) EXCEPT !.gallery.focusedCard = Null]
    ELSE m

\* a resize observer callback that also recomputes the column count
observedReplans(m, w) ==
    updateLayout(calculateGrid(
        [m EXCEPT !.gallery.width = m.container.offsetWidth,
                  !.gallery.columns = ColumnsFor(w.innerWidth)], w))

\* the resize observer's callback, lines 93-97
observed(m, w) ==
    updateLayout(calculateGrid([m EXCEPT !.gallery.width = m.container.offsetWidth], w))

\* clearTimeout(this.resizeTimeout): one pending timer less when the handle
\* names a pending timer, nothing otherwise
clearTimeout(timers, pending) == IF pending THEN timers - 1 ELSE timers

\* handleResize that does not clear the timer it replaces
handleResizeKeepsTimer(g, timers) ==
    [gallery |-> [g EXCEPT !.resizeTimeout = TRUE], timers |-> timers + 1]

\* handleResize, lines 386-398, up to its setTimeout: what it leaves of the
\* gallery and of the number of pending debounce timers
handleResize(g, timers) ==
    [gallery |-> [g EXCEPT !.resizeTimeout = TRUE],
     timers |-> clearTimeout(timers, g.resizeTimeout) + 1]

\* the debounce timer's callback without its oldColumns !== columns test
resizedAlways(m, w) ==
    updateLayout(render(calculateGrid(
        [m EXCEPT !.gallery.columns = ColumnsFor(w.innerWidth),
                  !.gallery.resizeTimeout = w.timers > 1], w)))

\* the debounce timer's callback, lines 388-397 (the timers fire oldest
\* first and resizeTimeout names the youngest: it names a pending timer
\* afterwards when another one was pending)
resized(m, w) ==
    LET oldColumns == m.gallery.columns
        planned == [m EXCEPT !.gallery.columns = ColumnsFor(w.innerWidth),
                             !.gallery.resizeTimeout = w.timers > 1]
    IN  IF oldColumns # planned.gallery.columns
        THEN updateLayout(render(calculateGrid(planned, w)))
        ELSE planned

\* the callback of the earliest pending stagger timer, lines 276-283: it
\* styles the element it closed over, which is a child of the container
\* unless a render or destroy has removed it since
staggerFires(m) ==
    LET t == Head(m.stagger)
        fired == [m EXCEPT !.stagger = Tail(@)]
    IN  IF t.attached
        THEN [fired EXCEPT !.container.children[t.element] =
                 Translate([@ EXCEPT !.opacity = 1], t.x, t.y)]
        ELSE fired

\* destroy, lines 409-416 (removeEventListener is handed a new function, so
\* the resize listener init attached stays attached)
destroy(m) ==
    [m EXCEPT !.gallery.resizeObserver = FALSE,
              !.container.children = <<>>,
              !.gallery.focusedCard = Null,
              !.stagger = Detached(@)]

(***************************************************************************)
(* preloadImages, lines 64-81: one Image and one promise per url; onload   *)
(* records the natural size in the local meta and resolves the promise,    *)
(* onerror resolves it.  Promise.all resolves once every promise has.      *)
(***************************************************************************)
onload(p, k, src) ==
    [p EXCEPT !.images[k] = "loaded", !.promises[k] = "resolved",
              !.meta[src] = NaturalSize(src)]

\* onerror that rejects the promise
onerrorRejects(p, k, src) ==
    [p EXCEPT !.images[k] = "error", !.promises[k] = "rejected"]

onerror(p, k, src) ==
    [p EXCEPT !.images[k] = "error", !.promises[k] = "resolved"]

\* a join that resolves with the first promise (Promise.race)
AnySettled(p) == \E k \in 1..Len(p.promises) : p.promises[k] = "resolved"

AllSettled(p) == \A k \in 1..Len(p.promises) : p.promises[k] = "resolved"

\* init after the await, lines 38-61
mount(m, p, w) ==
    LET merged == [m EXCEPT !.gallery.imageMeta = p.meta,
                            !.gallery.imagesReady = TRUE,
                            !.gallery.items = EnrichAll(@, p.meta),
                            !.gallery.columns = ColumnsFor(w.innerWidth),
                            !.gallery.resizeObserver = TRUE]
    IN  animateIn(render(calculateGrid(merged, w)), w)

(***************************************************************************)
(* The lifecycle specification: GalleryManager.init creates the gallery    *)
(* and starts init; the loads settle in any order; init mounts; then       *)
(* events arrive in any order.                                             *)
(***************************************************************************)
NoPreload == [images |-> <<>>, promises |-> <<>>, meta |-> [u \in Urls |-> NoMeta]]

Init ==
    /\ gallery = NewGallery
    /\ container \in [found : {TRUE}, offsetWidth : GalleryContainerWidths,
                      children : {<<>>}, height : {Undefined}]
    /\ colHeights = NoColHeights
    /\ stagger = <<>>
    /\ win \in [innerWidth : GalleryInnerWidths, innerHeight : GalleryInnerHeights,
                resizeListener : {FALSE}, timers : {0}]
    /\ preload = NoPreload
    /\ manager = [gallery |-> FALSE, initialized |-> FALSE, clickListener |-> FALSE,
                  destroyed |-> FALSE, created |-> 0]
    /\ pc = "start"

\* GalleryManager.init that does not look for the container
managerInitUnchecked(mgr, found) ==
    IF mgr.initialized THEN mgr
    ELSE [mgr EXCEPT !.gallery = TRUE, !.initialized = TRUE, !.clickListener = TRUE,
                     !.created = @ + 1]

\* GalleryManager.init without the return of line 435
managerInitAgain(mgr, found) ==
    IF ~found THEN mgr
    ELSE [mgr EXCEPT !.gallery = TRUE, !.initialized = TRUE, !.clickListener = TRUE,
                     !.created = @ + 1]

\* GalleryManager.init, lines 426-549, on the manager's own fields: it
\* returns at line 431 when the container is missing and at line 435 when
\* the manager is initialized; created counts the MasonryGallery objects
\* line 543 has constructed
managerInit(mgr, found) ==
    IF ~found \/ mgr.initialized THEN mgr
    ELSE [mgr EXCEPT !.gallery = TRUE, !.initialized = TRUE, !.clickListener = TRUE,
                     !.created = @ + 1]

\* checkAndInit, lines 551-557, with the gallery tab's checked state
checkAndInit(mgr, found, checked) ==
    IF checked /\ ~mgr.initialized THEN managerInit(mgr, found) ELSE mgr

\* GalleryManager.init, lines 426-549, up to init's await: the constructor,
\* init's first statements, preloadImages' loads issued, initClickOutside
StartInit(items) ==
    /\ managerInit(manager, container.found).created > manager.created
    /\ gallery' = [NewGallery EXCEPT !.items = items]
    /\ preload' = [images |-> [k \in 1..Len(items) |-> "loading"],
                   promises |-> [k \in 1..Len(items) |-> "pending"],
                   meta |-> [u \in Urls |-> NoMeta]]
    /\ manager' = managerInit(manager, container.found)
    /\ pc' = "preloading"
    /\ UNCHANGED <<container, colHeights, stagger, win>>

ManagerInit == \E items \in GalleryLists : StartInit(items)

\* GalleryManager.checkAndInit, lines 551-557 (DOM ready, lines 566-593):
\* init runs when the gallery tab is checked and the manager not initialized
CheckAndInit ==
    \E checked \in BOOLEAN :
       LET after == checkAndInit(manager, container.found, checked)
       IN  IF after.created > manager.created
           THEN \E items \in GalleryLists : StartInit(items)
           ELSE UNCHANGED vars

\* the k-th load settles: img.onload when the url responds, img.onerror
\* when it does not
ImageSettles ==
    /\ pc = "preloading"
    /\ \E k \in 1..Len(preload.images) :
          /\ preload.images[k] = "loading"
          /\ preload' = IF Responds(gallery.items[k].img)
                        THEN onload(preload, k, gallery.items[k].img)
                        ELSE onerror(preload, k, gallery.items[k].img)
    /\ UNCHANGED <<gallery, container, colHeights, stagger, win, manager, pc>>

\* Promise.all has resolved: init continues after its await, lines 38-61
Mount ==
    /\ pc = "preloading"
    /\ AllSettled(preload)
    /\ Becomes(mount(Machine, preload, win))
    /\ win' = [win EXCEPT !.resizeListener = TRUE]
    /\ pc' = "ready"
    /\ UNCHANGED <<preload, manager>>

\* the container's box changes (layout, CSS, a hidden tab)
ContainerResize ==
    /\ container.found
    /\ \E width \in GalleryContainerWidths \ {container.offsetWidth} :
          container' = [container EXCEPT !.offsetWidth = width]
    /\ UNCHANGED <<gallery, colHeights, stagger, win, preload, manager, pc>>

\* the resize observer delivers an observation
ResizeObserved ==
    /\ gallery.resizeObserver
    /\ Becomes(observed(Machine, win))
    /\ UNCHANGED <<win, preload, manager, pc>>

\* the window is resized; a 'resize' event reaches handleResize, lines
\* 386-398, which restarts the debounce timer
WindowResize ==
    /\ \E iw \in GalleryInnerWidths, ih \in GalleryInnerHeights :
          /\ <<iw, ih>> # <<win.innerWidth, win.innerHeight>>
          /\ IF win.resizeListener
             THEN LET restarted == handleResize(gallery, win.timers)
                  IN  /\ restarted.timers <= MaxTimers
                      /\ gallery' = restarted.gallery
                      /\ win' = [win EXCEPT !.innerWidth = iw, !.innerHeight = ih,
                                            !.timers = restarted.timers]
             ELSE /\ win' = [win EXCEPT !.innerWidth = iw, !.innerHeight = ih]
                  /\ UNCHANGED gallery
    /\ UNCHANGED <<container, colHeights, stagger, preload, manager, pc>>

\* the debounce timer fires
ResizeTimer ==
    /\ win.timers > 0
    /\ Becomes(resized(Machine, win))
    /\ win' = [win EXCEPT !.timers = @ - 1]
    /\ UNCHANGED <<preload, manager, pc>>

\* the url of the item a rendered element's handlers close over
ItemUrl(key) == gallery.items[FindIndex(gallery.items, key)].url

\* a click on a rendered element, lines 232-239
Click ==
    /\ \E e \in 1..Len(container.children) :
          LET element == container.children[e].key
          IN  Becomes(click(Machine, element, element, win).after)
    /\ UNCHANGED <<win, preload, manager, pc>>

\* Enter or Space on a rendered element, lines 241-246
KeyDown ==
    /\ \E e \in 1..Len(container.children) :
          LET element == container.children[e].key
          IN  Becomes(keydown(Machine, element, element, win).after)
    /\ UNCHANGED <<win, preload, manager, pc>>

\* a click outside every item reaches the document listener
ClickOutside ==
    /\ manager.clickListener
    /\ Becomes(clickOutside(Machine, win))
    /\ UNCHANGED <<win, preload, manager, pc>>

\* the earliest pending stagger timer fires, lines 276-283
StaggerTimer ==
    /\ stagger # <<>>
    /\ Becomes(staggerFires(Machine))
    /\ UNCHANGED <<win, preload, manager, pc>>

\* GalleryManager.destroy, lines 559-563
Destroy ==
    /\ manager.gallery
    /\ Becomes(destroy(Machine))
    /\ manager' = [manager EXCEPT !.destroyed = @ \/ gallery.hasMounted]
    /\ UNCHANGED <<win, preload, pc>>

Next ==
    \/ ManagerInit
    \/ CheckAndInit
    \/ ImageSettles
    \/ Mount
    \/ ContainerResize
    \/ ResizeObserved
    \/ WindowResize
    \/ ResizeTimer
    \/ Click
    \/ KeyDown
    \/ ClickOutside
    \/ StaggerTimer
    \/ Destroy

Spec == Init /\ [][Next]_vars

(***************************************************************************)
(* The preload specification: init up to and including its first layout,   *)
(* every load free to succeed or fail, in any order.                       *)
(***************************************************************************)
InitPreload ==
    /\ gallery = NewGallery
    /\ container \in [found : BOOLEAN, offsetWidth : ContainerWidths,
                      children : {<<>>}, height : {Undefined}]
    /\ colHeights = NoColHeights
    /\ stagger = <<>>
    /\ win \in [innerWidth : GalleryInnerWidths, innerHeight : GalleryInnerHeights,
                resizeListener : {FALSE}, timers : {0}]
    /\ preload = NoPreload
    /\ manager = [gallery |-> FALSE, initialized |-> FALSE, clickListener |-> FALSE,
                  destroyed |-> FALSE, created |-> 0]
    /\ pc = "start"

ManagerInitAny == \E items \in ItemLists(MaxItems) : StartInit(items)

\* GalleryManager.init in a document without the container, lines 427-431
ManagerInitSkipped ==
    /\ ~container.found
    /\ manager' = managerInit(manager, container.found)
    /\ pc' = "skipped"
    /\ UNCHANGED <<gallery, container, colHeights, stagger, win, preload>>

\* img.onload of the k-th load
ImageLoaded ==
    /\ pc = "preloading"
    /\ \E k \in 1..Len(preload.images) :
          /\ preload.images[k] = "loading"
          /\ preload' = onload(preload, k, gallery.items[k].img)
    /\ UNCHANGED <<gallery, container, colHeights, stagger, win, manager, pc>>

\* img.onerror of the k-th load
ImageFailed ==
    /\ pc = "preloading"
    /\ \E k \in 1..Len(preload.images) :
          /\ preload.images[k] = "loading"
          /\ preload' = onerror(preload, k, gallery.items[k].img)
    /\ UNCHANGED <<gallery, container, colHeights, stagger, win, manager, pc>>

NextPreload ==
    \/ ManagerInitAny
    \/ ManagerInitSkipped
    \/ ImageLoaded
    \/ ImageFailed
    \/ Mount
    \/ ContainerResize
    \/ ResizeObserved

SpecPreload == InitPreload /\ [][NextPreload]_vars

(***************************************************************************)
(* The packing specification: a gallery of any item list and any preload   *)
(* result; the step takes a container width, a viewport and a focused id   *)
(* and runs calculateGrid.                                                 *)
(***************************************************************************)
MetaResults == { [u \in Urls |-> IF u \in ok THEN NaturalSize(u) ELSE NoMeta] :
                 ok \in SUBSET Urls }

InitPack ==
    /\ \E items \in ItemLists(MaxItems), meta \in MetaResults :
          gallery = [NewGallery EXCEPT !.items = EnrichAll(items, meta),
                                       !.imageMeta = meta,
                                       !.imagesReady = TRUE]
    /\ container = [found |-> TRUE, offsetWidth |-> 0, children |-> <<>>,
                    height |-> Undefined]
    /\ colHeights = NoColHeights
    /\ stagger = <<>>
    /\ win = [innerWidth |-> 300, innerHeight |-> 400, resizeListener |-> FALSE,
             timers |-> 0]
    /\ preload = NoPreload
    /\ manager = [gallery |-> TRUE, initialized |-> TRUE, clickListener |-> FALSE,
                  destroyed |-> FALSE, created |-> 1]
    /\ pc = "pack"

ItemIds(items) == {items[k].id : k \in 1..Len(items)}

Repack ==
    /\ pc = "pack"
    /\ pc' = "packed"
    /\ \E width \in ContainerWidths, iw \in InnerWidths, ih \in InnerHeights,
          id \in ItemIds(gallery.items) \cup {Null} :
          /\ win' = [win EXCEPT !.innerWidth = iw, !.innerHeight = ih]
          /\ Becomes(calculateGrid(
                [Machine EXCEPT !.container.offsetWidth = width,
                                !.gallery.columns = ColumnsFor(iw),
                                !.gallery.focusedItemId = id], win'))
    /\ UNCHANGED <<preload, manager>>

NextPack == Repack

SpecPack == InitPack /\ [][NextPack]_vars

(***************************************************************************)
(* The column planner specification: updateColumns runs in a viewport of   *)
(* any width.                                                              *)
(***************************************************************************)
updateColumns(g, w) == [g EXCEPT !.columns = ColumnsFor(w.innerWidth)]

InitColumns ==
    /\ gallery = NewGallery
    /\ container = [found |-> TRUE, offsetWidth |-> 0, children |-> <<>>,
                    height |-> Undefined]
    /\ colHeights = NoColHeights
    /\ stagger = <<>>
    /\ win \in [innerWidth : 0..MaxInnerWidth, innerHeight : {400},
                resizeListener : {FALSE}, timers : {0}]
    /\ preload = NoPreload
    /\ manager = [gallery |-> TRUE, initialized |-> TRUE, clickListener |-> FALSE,
                  destroyed |-> FALSE, created |-> 1]
    /\ pc = "columns"

Replan ==
    /\ pc = "columns"
    /\ pc' = "planned"
    /\ gallery' = updateColumns(gallery, win)
    /\ UNCHANGED <<container, colHeights, stagger, win, preload, manager>>

NextColumns == Replan

SpecColumns == InitColumns /\ [][NextColumns]_vars

(***************************************************************************)
(* Properties.                                                             *)
(***************************************************************************)
FocusedEntries(grid) == {k \in 1..Len(grid) : grid[k].focused}

FocusedElements(children) == {e \in 1..Len(children) : children[e].cardFocused}

\* C1: in every reachable state at most one Grid entry has focused = true
\* and at most one rendered element carries the card-focused class.
C1_AtMostOneFocused ==
    /\ Cardinality(FocusedEntries(gallery.grid)) <= 1
    /\ Cardinality(FocusedElements(container.children)) <= 1

\* one of two rendered items is focused: its Grid entry and its element
C1_Witness ==
    /\ Len(container.children) >= 2
    /\ \E e \in FocusedElements(container.children), k \in FocusedEntries(gallery.grid) :
          container.children[e].key = gallery.grid[k].id

\* [a.y, a.y + a.h) and [b.y, b.y + b.h) are disjoint
Disjoint(a, b) ==
    \/ JsGE(b.y, JsAdd(a.y, a.h))
    \/ JsGE(a.y, JsAdd(b.y, b.h))

\* C2: for any item list, column count and positive container width,
\* calculateGrid gives every entry y >= 0, and two distinct unfocused
\* entries with the same x occupy disjoint vertical intervals.
C2_NoOverlapInColumn ==
    (pc = "packed" /\ gallery.width > 0) =>
        LET grid == gallery.grid
        IN  /\ \A k \in 1..Len(grid) : JsGE(grid[k].y, 0)
            /\ \A a, b \in 1..Len(grid) :
                  (a # b /\ ~grid[a].focused /\ ~grid[b].focused
                         /\ grid[a].x = grid[b].x)
                  => Disjoint(grid[a], grid[b])

\* C3: whenever focusedItemId is the id of an item i, after calculateGrid
\* every other Grid entry starts at y >= i.y + i.h.
C3_OthersBelowFocused ==
    (pc = "packed" /\ gallery.width > 0
                   /\ gallery.focusedItemId \in ItemIds(gallery.items)) =>
        LET grid == gallery.grid
            i == FindIndex(grid, gallery.focusedItemId)
        IN  \A k \in 1..Len(grid) :
               k # i => JsGE(grid[k].y, JsAdd(grid[i].y, grid[i].h))

\* C4: whenever focusedItemId is the id of an item, calculateGrid makes it
\* the first Grid entry, at x = 0, y = 0 with w = the container width, and
\* the other entries follow in their original relative order.
C4_FocusedPackedFirst ==
    (pc = "packed" /\ gallery.width > 0
                   /\ gallery.focusedItemId \in ItemIds(gallery.items)) =>
        LET grid == gallery.grid
            items == gallery.items
        IN  /\ grid[1].id = gallery.focusedItemId
            /\ grid[1].x = 0 /\ grid[1].y = 0 /\ grid[1].w = gallery.width
            /\ \A a, b \in 2..Len(grid) :
                  a < b => FindIndex(items, grid[a].id) < FindIndex(items, grid[b].id)

\* the keys of the rendered elements
Keys == {container.children[e].key : e \in 1..Len(container.children)}

\* no item is focused, and the container is as wide as the last
\* calculateGrid found it
C5_Unfocused ==
    /\ pc = "ready"
    /\ gallery.focusedItemId = Null
    /\ gallery.focusedCard = Null
    /\ container.offsetWidth = gallery.width

\* C5: with container width, column count and viewport height unchanged,
\* focusing an item and then unfocusing it (the same item activated again,
\* or a click outside) leaves a Grid identical to the one before the focus.
C5_RoundTrip ==
    C5_Unfocused =>
        \A key \in Keys :
           LET focused == toggleFocus(Machine, key, key, win)
           IN  /\ toggleFocus(focused, key, key, win).gallery.grid = gallery.grid
               /\ clickOutside(focused, win).gallery.grid = gallery.grid

\* an unfocused gallery of two items in which focusing one changes the Grid
C5_Witness ==
    /\ C5_Unfocused
    /\ Len(gallery.grid) >= 2
    /\ \E key \in Keys :
          LET focused == toggleFocus(Machine, key, key, win)
          IN  /\ focused.gallery.grid # gallery.grid
              /\ Cardinality(FocusedEntries(focused.gallery.grid)) = 1

\* C6: after every full render and every layout-only update of a non-empty
\* Grid, the container height is the maximum of y + h over the entries,
\* which is the tallest column's running height at the end of the pass.
C6_ContainerHeightIsMax ==
    (gallery.hasMounted /\ gallery.grid # <<>>) =>
        /\ container.height = MaxHeight(gallery.grid)
        /\ container.height = MathMax(colHeights.cols)

\* C7: updateColumns gives 5 columns from 1500, 4 from 1000, 3 from 600,
\* 2 from 400 and 1 below, exactly at each boundary.
C7_Breakpoints ==
    pc = "planned" =>
        LET width == win.innerWidth
            columns == gallery.columns
        IN  /\ columns = 5 <=> width >= 1500
            /\ columns = 4 <=> (1000 <= width /\ width < 1500)
            /\ columns = 3 <=> (600 <= width /\ width < 1000)
            /\ columns = 2 <=> (400 <= width /\ width < 600)
            /\ columns = 1 <=> width < 400
            /\ (width = 1499 => columns = 4) /\ (width = 1500 => columns = 5)
            /\ (width = 999 => columns = 3) /\ (width = 1000 => columns = 4)
            /\ (width = 399 => columns = 1) /\ (width = 400 => columns = 2)

\* updateColumns has run in a viewport exactly 1500 wide
C7_Witness == pc = "planned" /\ win.innerWidth = 1500 /\ gallery.columns = 5

\* some load issued by preloadImages has not settled
LoadPending == \E k \in 1..Len(preload.images) : preload.images[k] = "loading"

\* C8: whatever the order of the loads' successes and failures, init packs
\* no grid, renders nothing and sets up no observer or listener before
\* every load has settled.
C8_NoLayoutBeforeSettled ==
    LoadPending =>
        /\ gallery.grid = <<>>
        /\ colHeights = NoColHeights
        /\ container.children = <<>>
        /\ stagger = <<>>
        /\ ~gallery.imagesReady
        /\ ~gallery.hasMounted
        /\ ~gallery.resizeObserver
        /\ ~win.resizeListener

\* one load has succeeded, one has failed and one is still pending
C8_Witness ==
    /\ LoadPending
    /\ \E k \in 1..Len(preload.images) : preload.images[k] = "loaded"
    /\ \E k \in 1..Len(preload.images) : preload.images[k] = "error"

\* no load of src has succeeded
FailedUrl(src) ==
    /\ \E k \in 1..Len(preload.images) :
          gallery.items[k].img = src /\ preload.images[k] = "error"
    /\ \A k \in 1..Len(preload.images) :
          gallery.items[k].img = src => preload.images[k] # "loaded"

\* C9: whichever urls fail to load, they are absent from imageMeta, no
\* promise is rejected, and once a layout has run with a positive container
\* width the Grid holds exactly one entry for every supplied item.
C9_FailedLoadsKeepItems ==
    /\ \A k \in 1..Len(preload.promises) : preload.promises[k] # "rejected"
    /\ \A src \in Urls : FailedUrl(src) => preload.meta[src] = NoMeta
    /\ pc = "ready" =>
          /\ \A src \in Urls : FailedUrl(src) => gallery.imageMeta[src] = NoMeta
          /\ gallery.width > 0 =>
                /\ Len(gallery.grid) = Len(gallery.items)
                /\ \A i \in 1..Len(gallery.items) :
                      Cardinality({k \in 1..Len(gallery.grid) :
                                     gallery.grid[k].id = gallery.items[i].id}) = 1

\* a gallery laid out at a positive width after one load failed and
\* another succeeded
C9_Witness ==
    /\ pc = "ready" /\ gallery.width > 0
    /\ Len(gallery.grid) >= 2
    /\ \E src \in Urls : FailedUrl(src)
    /\ \E k \in 1..Len(preload.images) : preload.images[k] = "loaded"

\* what activating the unfocused item key leaves: focusedItemId = key, the
\* class on its element only
C10_Focuses(after, key) ==
    /\ after.gallery.focusedItemId = key
    /\ after.gallery.focusedCard = key
    /\ \A e \in 1..Len(after.container.children) :
          after.container.children[e].cardFocused
             <=> after.container.children[e].key = key

\* the Grid is a fresh packing whose focused entry is key
C10_Repacked(after, key) ==
    /\ after.gallery.width = container.offsetWidth
    /\ after.gallery.grid = Pack(gallery.items, gallery.columns, container.offsetWidth,
                                 key, win.innerHeight).grid
    /\ \A k \in 1..Len(after.gallery.grid) :
          after.gallery.grid[k].focused <=> after.gallery.grid[k].id = key

\* C10 as claimed: in every reachable state, activating an item j that is
\* not focused gives focusedItemId = j, the previously focused item
\* unfocused, and the Grid repacked with j as the focused entry.
C10_ActivateFocuses ==
    \A key \in Keys :
       key # gallery.focusedItemId =>
          LET after == toggleFocus(Machine, key, key, win)
          IN  C10_Focuses(after, key) /\ C10_Repacked(after, key)

\* C10 as amended: the same, the Grid being repacked when the container
\* width is positive and left as it was when the width is 0.
C10_ActivateFocusesAtWidth ==
    \A key \in Keys :
       key # gallery.focusedItemId =>
          LET after == toggleFocus(Machine, key, key, win)
          IN  /\ C10_Focuses(after, key)
              /\ container.offsetWidth > 0 => C10_Repacked(after, key)
              /\ container.offsetWidth = 0 => after.gallery.grid = gallery.grid

\* an item is focused while another, unfocused one is rendered, at a
\* positive container width
C10_Witness ==
    /\ container.offsetWidth > 0
    /\ gallery.focusedCard # Null
    /\ gallery.focusedItemId = gallery.focusedCard
    /\ \E key \in Keys : key # gallery.focusedItemId

\* the Grid is a fresh packing of the items with no focused item
Unfocused(after) ==
    /\ after.gallery.focusedItemId = Null
    /\ after.gallery.grid = Pack(gallery.items, gallery.columns, container.offsetWidth,
                                 Null, win.innerHeight).grid
    /\ FocusedEntries(after.gallery.grid) = {}

\* C11: in every reachable state in which an item i without a destination
\* link is focused (focusedItemId = i), activating i again gives Unfocused:
\* focusedItemId = none and a repacked Grid with no focused entry.
C11_ActivateAgainUnfocuses ==
    \A key \in Keys :
       (gallery.focusedItemId = key /\ ~ItemUrl(key)) =>
          Unfocused(toggleFocus(Machine, key, key, win))

\* C12: in every reachable state in which some rendered item is focused
\* (focusedItemId is its id), a click outside every item gives Unfocused:
\* focusedItemId = none and the Grid repacked with no focused entry.
C12_ClickOutsideUnfocuses ==
    (manager.clickListener /\ gallery.focusedItemId \in Keys) =>
        Unfocused(clickOutside(Machine, win))

\* C13: whenever a focused item that carries a destination url is
\* activated, by click or by Enter/Space, the link is opened and focus is
\* not toggled: focusedItemId and the Grid are unchanged.
C13_FocusedLinkOpens ==
    \A key \in Keys :
       (gallery.focusedItemId = key /\ gallery.focusedCard = key /\ ItemUrl(key)) =>
          \A activation \in {click(Machine, key, key, win),
                             keydown(Machine, key, key, win)} :
             /\ activation.opened = key
             /\ activation.after.gallery.focusedItemId = gallery.focusedItemId
             /\ activation.after.gallery.grid = gallery.grid

\* C14: after destroy() the resize observer and the window resize listener
\* are detached, so that no later observation or window resize event runs
\* calculateGrid, render or updateLayout, and the container stays empty.
C14_DetachedAfterDestroy ==
    manager.destroyed =>
        /\ ~gallery.resizeObserver
        /\ ~win.resizeListener
        /\ container.children = <<>>

\* every pending stagger timer has fired
RECURSIVE Drained(_)
Drained(m) == IF m.stagger = <<>> THEN m ELSE Drained(staggerFires(m))

\* C15: a resize-debounce timer or stagger timer that is pending when
\* destroy() runs is a no-op when it fires later, whatever the window width
\* is then: the container stays empty.
C15_PendingTimersNoOp ==
    (pc = "ready" /\ manager.gallery) =>
        LET torn == destroy(Machine)
        IN  /\ win.timers > 0 =>
                  \A iw \in GalleryInnerWidths :
                     resized(torn, [win EXCEPT !.innerWidth = iw]).container.children = <<>>
            /\ stagger # <<>> => Drained(torn).container.children = <<>>

\* init's first layout found the container 0 wide, and no layout has found
\* it wider since
FirstLayoutSkipped ==
    /\ gallery.hasMounted
    /\ gallery.resizeObserver
    /\ gallery.items # <<>>
    /\ gallery.grid = <<>>

\* C16: if init's first layout is attempted while the container is 0 wide,
\* the next container-size observation at a positive width leaves every
\* item with a Grid entry and a rendered element positioned at that entry.
C16_RetriedOnObservation ==
    (FirstLayoutSkipped /\ container.offsetWidth > 0) =>
        LET after == observed(Machine, win)
        IN  \A i \in 1..Len(gallery.items) :
               \E k \in 1..Len(after.gallery.grid) :
                  /\ after.gallery.grid[k].id = gallery.items[i].id
                  /\ \E e \in 1..Len(after.container.children) :
                        /\ after.container.children[e].key = gallery.items[i].id
                        /\ after.container.children[e].x = after.gallery.grid[k].x
                        /\ after.container.children[e].y = after.gallery.grid[k].y

\* C17: calculateGrid run while the container is 0 wide is a no-op: the
\* Grid is left exactly as it was and no packing pass (no division by the
\* column count) takes place.
C17_ZeroWidthNoOp ==
    container.offsetWidth = 0 =>
        LET after == calculateGrid(Machine, win)
        IN  /\ after.gallery.grid = gallery.grid
            /\ after.colHeights = colHeights
            /\ after.gallery = [gallery EXCEPT !.width = 0]
            /\ after.container = container

\* the container is 0 wide while the Grid holds entries packed before the
\* focus changed, so that a packing pass would change it
C17_Witness ==
    /\ container.offsetWidth = 0
    /\ gallery.grid # <<>>
    /\ gallery.focusedItemId # Null
    /\ FocusedEntries(gallery.grid) = {}

\* C18: window resize handling is trailing-edge debounced.  At most one
\* debounce timer is pending at any time; a resize event recomputes nothing
\* and leaves exactly one timer pending, however many events came before it;
\* the column count is recomputed only when that timer fires, once, from the
\* viewport width of the last event.
C18_TrailingDebounce ==
    [][ /\ win'.timers <= 1
        /\ (win.resizeListener
              /\ <<win'.innerWidth, win'.innerHeight>> # <<win.innerWidth, win.innerHeight>>)
           => (win'.timers = 1 /\ gallery'.columns = gallery.columns)
        /\ win'.timers < win.timers
           => (win'.timers = 0 /\ gallery'.columns = ColumnsFor(win.innerWidth))
        /\ (pc = "ready" /\ gallery'.columns # gallery.columns)
           => win'.timers < win.timers ]_vars

\* a timer is pending after a resize event that calls for another column
\* count
C18_Witness ==
    /\ win.timers = 1
    /\ gallery.resizeTimeout
    /\ gallery.columns # ColumnsFor(win.innerWidth)

\* the debounce timer found the column count unchanged: the Grid, the
\* rendered elements and the focus state are as before
C19_Untouched(after) ==
    /\ after.gallery.grid = gallery.grid
    /\ after.container = container
    /\ after.gallery.focusedItemId = gallery.focusedItemId
    /\ after.gallery.focusedCard = gallery.focusedCard

\* the elements are those of a full render of the Grid followed by a layout
\* update: one new element per entry, in the Grid's order, styled from it
C19_Rebuilt(after) ==
    /\ after.container.children =
          LayoutFrom(after.gallery.grid, 1,
                     [k \in 1..Len(after.gallery.grid) |->
                         NewElement(after.gallery.grid[k])])
    /\ after.container.height = StylePx(container.height, MaxHeight(after.gallery.grid))

\* C19 as claimed: when the debounce timer fires and the recomputed column
\* count equals the previous one, the Grid, the elements and the focus
\* state are unchanged; when it differs, the Grid is repacked with the new
\* column count and the elements are rebuilt by a render and a layout update.
C19_TimerEffect ==
    win.timers > 0 =>
        LET after == resized(Machine, win)
            columns == ColumnsFor(win.innerWidth)
        IN  IF columns = gallery.columns
            THEN C19_Untouched(after)
            ELSE /\ after.gallery.columns = columns
                 /\ after.gallery.grid =
                       Pack(gallery.items, columns, container.offsetWidth,
                            gallery.focusedItemId, win.innerHeight).grid
                 /\ C19_Rebuilt(after)

\* C19 as amended: the same, the Grid being repacked when the container
\* width is positive and left as it was (and rendered again) when it is 0.
C19_TimerEffectAtWidth ==
    win.timers > 0 =>
        LET after == resized(Machine, win)
            columns == ColumnsFor(win.innerWidth)
        IN  IF columns = gallery.columns
            THEN C19_Untouched(after)
            ELSE /\ after.gallery.columns = columns
                 /\ container.offsetWidth > 0 =>
                       after.gallery.grid =
                          Pack(gallery.items, columns, container.offsetWidth,
                               gallery.focusedItemId, win.innerHeight).grid
                 /\ container.offsetWidth = 0 => after.gallery.grid = gallery.grid
                 /\ C19_Rebuilt(after)

\* the timer is pending over a rendered gallery of positive width whose
\* column count is due to change
C19_Witness ==
    /\ win.timers > 0
    /\ container.offsetWidth > 0
    /\ container.children # <<>>
    /\ gallery.columns # ColumnsFor(win.innerWidth)

\* what an observation leaves apart from the Grid: the width read again, the
\* same elements restyled from the Grid (a layout-only update), the column
\* count and the focus as before
C20_LayoutOnly(after) ==
    /\ after.gallery.width = container.offsetWidth
    /\ after.container.children =
          LayoutFrom(after.gallery.grid, 1, container.children)
    /\ [e \in 1..Len(after.container.children) |-> after.container.children[e].key]
          = [e \in 1..Len(container.children) |-> container.children[e].key]
    /\ after.container.height = StylePx(container.height, MaxHeight(after.gallery.grid))
    /\ after.gallery.columns = gallery.columns
    /\ after.gallery.focusedItemId = gallery.focusedItemId
    /\ after.gallery.focusedCard = gallery.focusedCard

\* C20 as claimed: a container-size observation re-reads the container
\* width, repacks the Grid and applies a layout-only update, and leaves the
\* column count and focusedItemId unchanged.
C20_Observation ==
    gallery.resizeObserver =>
        LET after == observed(Machine, win)
        IN  /\ after.gallery.grid =
                  Pack(gallery.items, gallery.columns, container.offsetWidth,
                       gallery.focusedItemId, win.innerHeight).grid
            /\ C20_LayoutOnly(after)

\* C20 as amended: the same, the Grid being repacked when the width read is
\* positive and left as it was when it is 0.
C20_ObservationAtWidth ==
    gallery.resizeObserver =>
        LET after == observed(Machine, win)
        IN  /\ container.offsetWidth > 0 =>
                  after.gallery.grid =
                     Pack(gallery.items, gallery.columns, container.offsetWidth,
                          gallery.focusedItemId, win.innerHeight).grid
            /\ container.offsetWidth = 0 => after.gallery.grid = gallery.grid
            /\ C20_LayoutOnly(after)

\* an observation is due on a rendered gallery: the container is wider than
\* the last layout found it, and the window calls for another column count
C20_Witness ==
    /\ gallery.resizeObserver
    /\ container.children # <<>>
    /\ container.offsetWidth > gallery.width
    /\ gallery.columns # ColumnsFor(win.innerWidth)

\* C21: when the container element is missing as GalleryManager.init runs,
\* the gallery is skipped: no MasonryGallery is created, no load is issued
\* and no listener attached, and GalleryManager.gallery and .initialized
\* keep their prior values (null, false).
C21_MissingContainerSkips ==
    pc = "skipped" =>
        /\ ~manager.gallery
        /\ ~manager.initialized
        /\ ~manager.clickListener
        /\ gallery = NewGallery
        /\ preload = NoPreload
        /\ ~win.resizeListener

\* init has run in a document without the container
C21_Witness == pc = "skipped" /\ ~container.found

\* calculateGrid has packed a non-empty Grid with no focused item
PackedUnfocused ==
    /\ pc = "packed"
    /\ container.offsetWidth > 0
    /\ gallery.focusedItemId = Null
    /\ gallery.grid # <<>>

\* the assigned heights of the Grid's entries
Heights(grid) == [k \in 1..Len(grid) |-> grid[k].h]

\* C22: with no focused item and N columns, after calculateGrid the tallest
\* and the shortest column running heights differ by at most the largest
\* height h assigned to a single Grid entry.
C22_BalanceBound ==
    PackedUnfocused =>
        MathMax(colHeights.cols) - MathMin(colHeights.cols)
           <= MathMax(Heights(gallery.grid))

\* three items packed into several columns that end at different heights
C22_Witness ==
    /\ PackedUnfocused
    /\ Len(gallery.grid) = 3
    /\ gallery.columns \in 2..3
    /\ MathMax(colHeights.cols) > MathMin(colHeights.cols)
    /\ MathMin(colHeights.cols) > 0

\* C23: packing is deterministic and idempotent: calculateGrid run again
\* with the same item list, column count, container width, viewport height
\* and focusedItemId gives an identical Grid, entry for entry.
C23_Idempotent ==
    pc = "packed" =>
        LET again == calculateGrid(Machine, win)
        IN  /\ again.gallery.grid = gallery.grid
            /\ again.colHeights = colHeights
            /\ calculateGrid(again, win).gallery.grid = gallery.grid

\* calculateGrid has packed several items around a focused one
C23_Witness ==
    /\ pc = "packed"
    /\ container.offsetWidth > 0
    /\ Len(gallery.grid) >= 2
    /\ FocusedEntries(gallery.grid) # {}

\* every rendered element sits at the x, y of its entry in the Grid
AtGridPositions(m) ==
    \A e \in 1..Len(m.container.children) :
       \A k \in 1..Len(m.gallery.grid) :
          m.gallery.grid[k].id = m.container.children[e].key =>
             /\ m.container.children[e].x = m.gallery.grid[k].x
             /\ m.container.children[e].y = m.gallery.grid[k].y

\* C24: if a relayout (focus toggle or container-size observation) happens
\* while stagger timers are pending, the later state wins: once all stagger
\* timers have fired, every rendered element is at the x, y of its entry in
\* the most recent Grid, not where animateIn captured it.
C24_LaterStateWins ==
    (pc = "ready" /\ stagger # <<>> /\ AtGridPositions(Machine)) =>
        AtGridPositions(Drained(Machine))

\* the Grid entry the hover listeners of the element with this key closed
\* over (an entry of the item with that id)
EntryOf(key) == gallery.grid[FindIndex(gallery.grid, key)]

\* C25: in every reachable state, mouseenter and mouseleave on the element
\* of the item whose id equals focusedItemId have no effect at all (no
\* scale, no overlay opacity change), while hover on any other item applies
\* its effects and removes them again, whether or not some item is focused.
C25_HoverSuppressedOnlyOnFocused ==
    pc = "ready" =>
        \A e \in 1..Len(container.children) :
           LET key == container.children[e].key
               entered == handleMouseEnter(Machine, key, EntryOf(key))
               left == handleMouseLeave(entered, key, EntryOf(key))
           IN  FindIndex(gallery.grid, key) > 0 =>
                  IF key = gallery.focusedItemId
                  THEN /\ entered = Machine
                       /\ handleMouseLeave(Machine, key, EntryOf(key)) = Machine
                  ELSE /\ entered.container.children[e].scale = hoverScale
                       /\ left.container.children[e].scale = 100

\* the running height of column c (counted from 0) when entry k of the Grid
\* is placed: the bottom edge of the last earlier entry that raised it (a
\* focused entry raises every column), 0 when there is none
RunningHeight(grid, k, c, columnWidth) ==
    LET prior == {j \in 1..(k - 1) : grid[j].focused \/ grid[j].x = c * columnWidth}
    IN  IF prior = {} THEN 0
        ELSE LET j == CHOOSE i \in prior : \A o \in prior : o <= i
             IN  JsAdd(grid[j].y, grid[j].h)

\* C26: each unfocused item is placed in the column whose running height is
\* minimal at that moment, the lowest-index column on ties, at
\* x = column index * column width and y = that column's running height;
\* with no focus the first min(n, N) items go to columns 0, 1, ... in
\* order, each at y = 0.
C26_GreedyMinColumn ==
    (pc = "packed" /\ container.offsetWidth > 0) =>
        LET grid == gallery.grid
            columnWidth == container.offsetWidth \div gallery.columns
            Cols == 0..(gallery.columns - 1)
        IN  /\ \A k \in 1..Len(grid) :
                  ~grid[k].focused =>
                     \E c \in Cols :
                        /\ grid[k].x = c * columnWidth
                        /\ grid[k].y = RunningHeight(grid, k, c, columnWidth)
                        /\ IsNum(grid[k].y)
                        /\ \A o \in Cols :
                              LET running == RunningHeight(grid, k, o, columnWidth)
                              IN  /\ IsNum(running)
                                  /\ running >= grid[k].y
                                  /\ o < c => running > grid[k].y
            /\ gallery.focusedItemId = Null =>
                  \A k \in 1..Len(grid) :
                     k <= gallery.columns =>
                        grid[k].x = (k - 1) * columnWidth /\ grid[k].y = 0

\* the column heights of the packing pass once the first k items, in the
\* order of the pass, are placed
ColumnsAfter(k) ==
    Pack(SubSeq(Ordered(gallery.items, gallery.focusedItemId), 1, k),
         gallery.columns, container.offsetWidth, gallery.focusedItemId,
         win.innerHeight).cols

\* C27: every unfocused Grid entry has w = container width / column count
\* and h = max(80, round(w * ratio)), so h >= 80, and placing it raises its
\* column's running height by exactly h and leaves every other column's
\* running height unchanged.
C27_UnfocusedSize ==
    (pc = "packed" /\ container.offsetWidth > 0) =>
        LET grid == gallery.grid
            columnWidth == container.offsetWidth \div gallery.columns
        IN  \A k \in 1..Len(grid) :
               ~grid[k].focused =>
                  LET c == (grid[k].x \div columnWidth) + 1
                      before == ColumnsAfter(k - 1)
                      after == ColumnsAfter(k)
                  IN  /\ grid[k].w = columnWidth
                      /\ grid[k].h = MathMax2(80, RoundDiv(columnWidth * grid[k].ratio.num,
                                                           grid[k].ratio.den))
                      /\ grid[k].h >= 80
                      /\ c \in 1..gallery.columns
                      /\ IsNum(before[c])
                      /\ after[c] = before[c] + grid[k].h
                      /\ \A o \in 1..gallery.columns : o # c => after[o] = before[o]

\* the preload recorded the natural size of the item's image
Loaded(item) == gallery.imageMeta[item.img].naturalWidth # Undefined

\* the natural height / width of a loaded image; otherwise the height hint
\* over the width hint; otherwise 1
RatioByPriority(item) ==
    IF Loaded(item)
    THEN [num |-> gallery.imageMeta[item.img].naturalHeight,
          den |-> gallery.imageMeta[item.img].naturalWidth]
    ELSE IF Truthy(item.height) /\ Truthy(item.width)
         THEN [num |-> item.height, den |-> item.width]
         ELSE [num |-> 1, den |-> 1]

\* as RatioByPriority, with each hint that is missing replaced by 1000
RatioByPriorityDefault1000(item) ==
    IF Loaded(item)
    THEN [num |-> gallery.imageMeta[item.img].naturalHeight,
          den |-> gallery.imageMeta[item.img].naturalWidth]
    ELSE [num |-> Or(item.height, 1000), den |-> Or(item.width, 1000)]

\* every unfocused entry is sized by the ratio Expected gives its item
SizedBy(Expected(_)) ==
    (pc = "packed" /\ container.offsetWidth > 0) =>
        LET columnWidth == container.offsetWidth \div gallery.columns
        IN  \A k \in 1..Len(gallery.grid) :
               LET item == gallery.grid[k]
                   ratio == Expected(item)
               IN  ~item.focused =>
                      /\ RatioOf(item).num * ratio.den = ratio.num * RatioOf(item).den
                      /\ item.h = MathMax2(80, RoundDiv(columnWidth * ratio.num, ratio.den))

\* C28: the ratio used to size an item is chosen in priority order: the
\* natural height / width from the preload metadata when the image loaded;
\* otherwise the item's height hint divided by its width hint; otherwise 1
\* (square) when no hint is available.
C28_RatioPriority == SizedBy(RatioByPriority)

\* C28 as amended: when the image did not load, the ratio is the height
\* hint over the width hint with each missing hint taken as 1000 (so 1 when
\* there is no hint, and height / 1000 when there is only a height hint).
C28_RatioPriorityDefault1000 == SizedBy(RatioByPriorityDefault1000)

\* a packing with a loaded image whose item has a height hint, an image that
\* failed with only a height hint, and one that failed with no hint
C28_Witness ==
    /\ pc = "packed"
    /\ container.offsetWidth > 0
    /\ gallery.focusedItemId = Null
    /\ \E a, b, c \in 1..Len(gallery.grid) :
          /\ Loaded(gallery.grid[a]) /\ Truthy(gallery.grid[a].height)
          /\ ~Loaded(gallery.grid[b]) /\ Truthy(gallery.grid[b].height)
          /\ ~Truthy(gallery.grid[b].width)
          /\ ~Loaded(gallery.grid[c]) /\ ~Truthy(gallery.grid[c].height)

\* C29: for every focused item, whether or not it carries a height hint,
\* the focused Grid entry has a well-defined numeric height
\* h = max(height hint / 2, 90% of the viewport height), and every column's
\* running height after placing it equals y + h.
C29_FocusedHeightDefined ==
    (pc = "packed" /\ container.offsetWidth > 0) =>
        \A k \in 1..Len(gallery.grid) :
           LET item == gallery.grid[k]
               half == IF IsNum(item.height) THEN item.height \div 2 ELSE 0
           IN  item.focused =>
                  /\ IsNum(item.h)
                  /\ item.h = MathMax2(half, FloorNineTenths(win.innerHeight))
                  /\ \A c \in 1..gallery.columns :
                        ColumnsAfter(k)[c] = item.y + item.h

\* the container holds one element per Grid entry, keyed by the entry's
\* item id, and nothing else
Rebuilt(m) ==
    LET children == m.container.children
        grid == m.gallery.grid
    IN  /\ Len(children) = Len(grid)
        /\ \A k \in 1..Len(grid) : children[k].key = grid[k].id
        /\ \A j, k \in 1..Len(children) : j # k => children[j].key # children[k].key
        /\ {children[k].key : k \in 1..Len(children)}
              = {grid[k].id : k \in 1..Len(grid)}

\* the debounce timer that fires next finds another column count
ColumnsChange ==
    /\ pc = "ready"
    /\ win.timers > 0
    /\ ColumnsFor(win.innerWidth) # gallery.columns

\* C30: after every full render (init's, the debounce timer's on a column
\* change, or render run from any reachable state) the container holds
\* exactly one element per Grid entry, keyed by that entry's item id, and no
\* element left over from an earlier render; the rendered ids are the Grid
\* ids.
C30_RenderRebuilds ==
    /\ (pc = "preloading" /\ AllSettled(preload)) =>
          Rebuilt(mount(Machine, preload, win))
    /\ ColumnsChange => Rebuilt(resized(Machine, win))
    /\ pc = "ready" => Rebuilt(render(Machine))

\* the debounce timer is about to render over the elements of an earlier
\* render, whose order is not the Grid's (an item other than the first is
\* focused)
C30_Witness ==
    /\ ColumnsChange
    /\ Len(gallery.grid) = 2
    /\ Len(container.children) = 2
    /\ container.children[1].key # gallery.grid[1].id
    /\ Rebuilt(resized(Machine, win))

\* the children after a handler are the children before it, one for one:
\* none created, removed or replaced (a new element would carry the key of
\* its Grid entry, in Grid order, and the opacity render gives it)
SameElements(before, after) ==
    /\ Len(after) = Len(before)
    /\ \A e \in 1..Len(before) :
          /\ after[e].key = before[e].key
          /\ after[e].opacity = before[e].opacity
          /\ after[e].overlay = before[e].overlay

C32_FocusRecordsAgree ==
    /\ gallery.focusedCard # Null <=> gallery.focusedItemId # Null
    /\ gallery.focusedCard # Null =>
          /\ gallery.focusedCard = gallery.focusedItemId
          /\ \E e \in 1..Len(container.children) :
                container.children[e].key = gallery.focusedCard

\* a Grid entry is flagged focused exactly when its id is focusedItemId
FlagsAgree(m) ==
    \A k \in 1..Len(m.gallery.grid) :
       m.gallery.grid[k].focused <=> m.gallery.grid[k].id = m.gallery.focusedItemId

\* C33: after every focus toggle, outside click or resize handler, a Grid
\* entry has focused = true exactly when its id equals focusedItemId,
\* including when the handler ran while the container was 0 wide.
C33_FlagsFollowFocus ==
    pc = "ready" =>
        /\ \A e \in 1..Len(container.children) :
              LET key == container.children[e].key
              IN  FlagsAgree(toggleFocus(Machine, key, key, win))
        /\ FlagsAgree(clickOutside(Machine, win))
        /\ gallery.resizeObserver => FlagsAgree(observed(Machine, win))
        /\ win.timers > 0 => FlagsAgree(resized(Machine, win))

\* C33 as amended: the flags follow focusedItemId after every handler that
\* repacks (a focus toggle, an outside click that unfocuses, a container-size
\* observation, a debounce timer that finds another column count) while the
\* container width is positive.
C33_FlagsFollowFocusAtWidth ==
    (pc = "ready" /\ container.offsetWidth > 0) =>
        /\ \A e \in 1..Len(container.children) :
              LET key == container.children[e].key
              IN  FlagsAgree(toggleFocus(Machine, key, key, win))
        /\ gallery.focusedCard # Null => FlagsAgree(clickOutside(Machine, win))
        /\ gallery.resizeObserver => FlagsAgree(observed(Machine, win))
        /\ ColumnsChange => FlagsAgree(resized(Machine, win))

\* the Grid of a container that is wide again still carries the flags of a
\* focus that was changed while it was 0 wide, and a focus toggle is about to
\* repack it
C33_Witness ==
    /\ pc = "ready"
    /\ container.offsetWidth > 0
    /\ ~FlagsAgree(Machine)
    /\ Len(container.children) = 2
    /\ gallery.focusedItemId # Null

\* C34: in every reachable state a rendered element has aria-pressed =
\* 'true' and the card-focused class exactly when its item id equals
\* focusedItemId; every other element has aria-pressed = 'false' and no
\* card-focused class (also after a column-count change re-render while an
\* item is focused).
C34_MarkingFollowsFocus ==
    \A e \in 1..Len(container.children) :
       LET el == container.children[e]
       IN  IF el.key = gallery.focusedItemId
           THEN el.ariaPressed /\ el.cardFocused
           ELSE ~el.ariaPressed /\ ~el.cardFocused

\* C35: over any sequence of GalleryManager.checkAndInit / init calls
\* (DOM ready, gallery-tab changes), also while the first gallery's preload
\* is in flight, at most one MasonryGallery is ever created and initialised:
\* one has been created at most, and no call that arrives now creates a
\* second one.
C35_AtMostOneGallery ==
    /\ manager.created <= 1
    /\ manager.created = 1 =>
          /\ managerInit(manager, container.found) = manager
          /\ \A checked \in BOOLEAN :
                checkAndInit(manager, container.found, checked) = manager

\* the first gallery's preload is in flight, part of it settled, as a call
\* of init arrives
C35_Witness ==
    /\ pc = "preloading"
    /\ manager.created = 1
    /\ \E j, k \in 1..Len(preload.images) :
          preload.images[j] = "loading" /\ preload.images[k] # "loading"
    /\ managerInit(manager, container.found) = manager

\* the value render (lines 254-256) and updateLayout (lines 308-309) put
\* into container.style.height for the Grid of m
HeightWritten(m) == MaxHeight(m.gallery.grid)

\* C36: the container height written by render and updateLayout is always
\* a finite value >= 0, also when the item list is empty or the Grid is
\* empty because the container was 0 wide at the first layout.
C36_HeightFinite ==
    pc = "ready" =>
        /\ IsNum(HeightWritten(render(Machine)))
        /\ HeightWritten(render(Machine)) >= 0
        /\ gallery.hasMounted =>
              /\ IsNum(HeightWritten(updateLayout(Machine)))
              /\ HeightWritten(updateLayout(Machine)) >= 0

====
